---- MODULE Spec2Model ----
(***************************************************************************)
(* Model of scripts/prepare_dataset.py: the JSONL reader _iter_jsonl, the  *)
(* structural validator _validate_messages_struct and the pass             *)
(* validate_or_raise that drives them over one dataset file.               *)
(*                                                                         *)
(* Two specifications:                                                     *)
(*   Spec     one call of validate_or_raise on a file of at most MaxLines  *)
(*            physical lines, one step per loop iteration of the code;     *)
(*   SpecRec  one call of _validate_messages_struct on one parsed record.  *)
(***************************************************************************)
EXTENDS Naturals, Sequences, FiniteSets

\* Bounds of the model.
MaxLines == 4
MaxMsgs == 3

-----------------------------------------------------------------------------
(* Parsed JSON values, as json.loads returns them.  An object is the list  *)
(* of its key/value pairs in text order; a dict lookup sees the last pair  *)
(* of a key.                                                               *)

JNull == [t |-> "null"]
JBool(b) == [t |-> "bool", b |-> b]
JNum(n) == [t |-> "num", n |-> n]
JStr(s) == [t |-> "str", s |-> s]
JArr(items) == [t |-> "arr", items |-> items]
JObj(kv) == [t |-> "obj", kv |-> kv]
KV(k, v) == [k |-> k, v |-> v]

\* `key in d` for a dict d.
HasKey(o, key) == \E j \in 1..Len(o.kv) : o.kv[j].k = key

\* `d[key]` for a dict d that has the key.
Get(o, key) ==
  LET js == {j \in 1..Len(o.kv) : o.kv[j].k = key}
      last == CHOOSE j \in js : \A h \in js : h <= j
  IN o.kv[last].v

\* isinstance(v, list), isinstance(v, dict), isinstance(v, str)
IsList(v) == v.t = "arr"
IsDict(v) == v.t = "obj"
IsStr(v) == v.t = "str"

-----------------------------------------------------------------------------
(* _validate_messages_struct                                               *)

REQUIRED_ROLES == <<"user", "assistant">>

R_MESSAGES == "missing or invalid 'messages' list"
R_OBJECT == "each message must be an object"
R_KEYS == "each message must have 'role' and 'content'"
R_STRINGS == "'role' and 'content' must be strings"
R_ROLE == "required role not found in 'messages'"
R_PARSE == "JSON parse error"
R_EMPTY == "contains 0 valid records"
R_NOFILE == "Dataset file not found"

\* What a call ends with: no exception, or the exception raised.  `line` is
\* the line number the message carries (0: the message carries none), `role`
\* the role a missing-role message names.
NoExc == [type |-> "none", reason |-> "", line |-> 0, role |-> ""]
ValueError(reason, line, role) ==
  [type |-> "ValueError", reason |-> reason, line |-> line, role |-> role]
TypeError == [type |-> "TypeError", reason |-> "", line |-> 0, role |-> ""]
FileNotFoundError ==
  [type |-> "FileNotFoundError", reason |-> R_NOFILE, line |-> 0, role |-> ""]

\* `"messages" in s` for a str s is a substring test; of the strings the
\* model draws for a top-level value only "messages" itself contains it.
StrContainsMessages(s) == s = "messages"

\* Line 44, the test `"messages" not in rec or not isinstance(rec["messages"], list)`
\* by the type of rec: "raise" (the ValueError of line 45), "pass", or
\* "TypeError" when Python cannot evaluate the test on that type.
MessagesTest(rec) ==
  CASE rec.t = "obj" ->
         IF ~HasKey(rec, "messages") THEN "raise"
         ELSE IF ~IsList(Get(rec, "messages")) THEN "raise" ELSE "pass"
    [] rec.t = "arr" ->
         IF \E j \in 1..Len(rec.items) : rec.items[j] = JStr("messages")
         THEN "TypeError" ELSE "raise"
    [] rec.t = "str" ->
         IF StrContainsMessages(rec.s) THEN "TypeError" ELSE "raise"
    [] OTHER -> "TypeError"

\* Lines 49-54 on one message m: the reason of the first check m fails, or "".
MessageCheck(m) ==
  IF ~IsDict(m) THEN R_OBJECT
  ELSE IF ~HasKey(m, "role") \/ ~HasKey(m, "content") THEN R_KEYS
  ELSE IF ~IsStr(Get(m, "role")) \/ ~IsStr(Get(m, "content")) THEN R_STRINGS
  ELSE ""

\* Variant of FirstMissingRole: one required role present is taken as enough.
FirstMissingRole_any(roles_present) ==
  IF \E j \in 1..Len(REQUIRED_ROLES) : REQUIRED_ROLES[j] \in roles_present
  THEN "" ELSE REQUIRED_ROLES[1]

\* Lines 58-60: the first required role, in REQUIRED_ROLES order, that
\* roles_present lacks, or "".
FirstMissingRole(roles_present) ==
  LET miss == {j \in 1..Len(REQUIRED_ROLES) : REQUIRED_ROLES[j] \notin roles_present}
  IN IF miss = {} THEN ""
     ELSE REQUIRED_ROLES[CHOOSE j \in miss : \A h \in miss : j <= h]

\* Variant of MessagesLoop: one pass over all elements per check (all are
\* objects, then all have the keys, then all are strings) instead of all
\* checks per element.
MessagesLoop_per_check(msgs, j, roles_present, line_no) ==
  LET rest == j..Len(msgs)
  IN IF \E h \in rest : ~IsDict(msgs[h]) THEN ValueError(R_OBJECT, line_no, "")
     ELSE IF \E h \in rest : ~HasKey(msgs[h], "role") \/ ~HasKey(msgs[h], "content")
     THEN ValueError(R_KEYS, line_no, "")
     ELSE IF \E h \in rest : ~IsStr(Get(msgs[h], "role")) \/ ~IsStr(Get(msgs[h], "content"))
     THEN ValueError(R_STRINGS, line_no, "")
     ELSE LET r == FirstMissingRole(roles_present
                                      \cup {Get(msgs[h], "role").s : h \in rest})
          IN IF r = "" THEN NoExc ELSE ValueError(R_ROLE, line_no, r)

\* Lines 47-60: the loop over rec["messages"] from element j on, then the
\* required-role loop.
RECURSIVE MessagesLoop(_, _, _, _)
MessagesLoop(msgs, j, roles_present, line_no) ==
  IF j > Len(msgs)
  THEN LET r == FirstMissingRole(roles_present)
       IN IF r = "" THEN NoExc ELSE ValueError(R_ROLE, line_no, r)
  ELSE LET why == MessageCheck(msgs[j])
       IN IF why # "" THEN ValueError(why, line_no, "")
          ELSE MessagesLoop(msgs, j + 1,
                            roles_present \cup {Get(msgs[j], "role").s}, line_no)

validate_messages_struct(rec, line_no) ==
  LET t == MessagesTest(rec)
  IN IF t = "TypeError" THEN TypeError
     ELSE IF t = "raise" THEN ValueError(R_MESSAGES, line_no, "")
     ELSE MessagesLoop(Get(rec, "messages").items, 1, {}, line_no)

-----------------------------------------------------------------------------
(* The inputs.                                                             *)

\* Message elements a `messages` list is drawn from.
M_user == JObj(<<KV("role", JStr("user")), KV("content", JStr("hi"))>>)
M_assistant == JObj(<<KV("role", JStr("assistant")), KV("content", JStr("yo"))>>)
M_system == JObj(<<KV("role", JStr("system")), KV("content", JStr("s"))>>)
M_noRole == JObj(<<KV("content", JStr("hi"))>>)
M_noContent == JObj(<<KV("role", JStr("user"))>>)
M_roleNum == JObj(<<KV("role", JNum(1)), KV("content", JStr("hi"))>>)
M_contentNull == JObj(<<KV("role", JStr("assistant")), KV("content", JNull)>>)

Elems ==
  {M_user, M_assistant, M_system, M_noRole, M_noContent, M_roleNum,
   M_contentNull, JObj(<<>>), JStr("x")}

MsgLists == UNION {[1..n -> Elems] : n \in 0..MaxMsgs}

\* Top-level JSON values that are not objects.
NonObjects ==
  {JNull, JBool(TRUE), JNum(1), JStr("x"), JStr("messages"),
   JArr(<<>>), JArr(<<JStr("messages")>>)}

\* Objects without a `messages` list.
NoListObjects ==
  {JObj(<<>>), JObj(<<KV("text", JStr("x"))>>),
   JObj(<<KV("messages", JNull)>>), JObj(<<KV("messages", JStr("x"))>>),
   JObj(<<KV("messages", JObj(<<>>))>>)}

Records ==
  NonObjects \cup NoListObjects
    \cup {JObj(<<KV("messages", JArr(l))>>) : l \in MsgLists}

\* Line texts of a dataset file, without their line end.
T_OK == "{\"messages\":[{\"role\":\"user\",\"content\":\"hi\"},{\"role\":\"assistant\",\"content\":\"yo\"}]}"
T_USER == "{\"messages\":[{\"role\":\"user\",\"content\":\"hi\"}]}"
T_BAD == "{\"messages\": ["
T_NULL == "null"
T_ARR == "[]"

\* A physical line: white space `pre`, then `body`, which neither starts nor
\* ends with white space, then the line end.
Line(pre, body) == [pre |-> pre, body |-> body]
Lines ==
  {Line("", b) : b \in {"", T_OK, T_USER, T_BAD, T_NULL, T_ARR}}
    \cup {Line("  ", b) : b \in {"", T_OK}}

Files == UNION {[1..n -> Lines] : n \in 0..MaxLines}

-----------------------------------------------------------------------------
(* _iter_jsonl                                                             *)

\* line.strip(), line 35: the text without the white space around it.
strip(line) == line.body

\* json.loads(line), line 39, on the texts of Lines: the value, or the
\* JSONDecodeError.
JsonLoads(text) ==
  CASE text = T_OK ->
         [ok |-> TRUE, v |-> JObj(<<KV("messages", JArr(<<M_user, M_assistant>>))>>)]
    [] text = T_USER ->
         [ok |-> TRUE, v |-> JObj(<<KV("messages", JArr(<<M_user>>))>>)]
    [] text = T_NULL -> [ok |-> TRUE, v |-> JNull]
    [] text = T_ARR -> [ok |-> TRUE, v |-> JArr(<<>>)]
    [] OTHER -> [ok |-> FALSE, v |-> JNull]

VARIABLES
  exists,    \* p.exists()
  file,      \* the physical lines of the dataset file
  pc,        \* where the call stands
  i,         \* enumerate(f, 1): the number of physical lines read
  count,     \* validate_or_raise's count
  cur,       \* the pair _iter_jsonl yielded last
  emitted,   \* every pair _iter_jsonl yielded, in order
  exc,       \* the exception the call ended with
  printed,   \* the "[OK] ... validated with n records" line, once printed
  rec,       \* SpecRec: the record given to _validate_messages_struct
  verdict    \* SpecRec: what the call ended with

vars == <<exists, file, pc, i, count, cur, emitted, exc, printed, rec, verdict>>

Pair(line_no, v) == [line_no |-> line_no, rec |-> v]
NoPair == Pair(0, JNull)
NotPrinted == [ok |-> FALSE, n |-> 0]

Init ==
  /\ exists \in BOOLEAN
  /\ file \in (IF exists THEN Files ELSE {<<>>})
  /\ pc = "start"
  /\ i = 0
  /\ count = 0
  /\ cur = NoPair
  /\ emitted = <<>>
  /\ exc = NoExc
  /\ printed = NotPrinted
  /\ rec = JNull
  /\ verdict = NoExc

\* Lines 64-70: the existence test; the suffix test of lines 69-70 does nothing.
CheckExists ==
  /\ pc = "start"
  /\ IF exists
     THEN pc' = "iter" /\ exc' = exc
     ELSE pc' = "raised" /\ exc' = FileNotFoundError
  /\ UNCHANGED <<exists, file, i, count, cur, emitted, printed, rec, verdict>>

\* Lines 34-37: a line that is empty after strip() is passed over.
SkipBlank ==
  /\ pc = "iter"
  /\ i < Len(file)
  /\ strip(file[i + 1]) = ""
  /\ i' = i + 1
  /\ UNCHANGED <<exists, file, pc, count, cur, emitted, exc, printed, rec, verdict>>

\* Variant of YieldRecord: enumerate(f) counting from 0.
YieldRecord_from_zero ==
  /\ pc = "iter"
  /\ i < Len(file)
  /\ strip(file[i + 1]) # ""
  /\ JsonLoads(strip(file[i + 1])).ok
  /\ i' = i + 1
  /\ cur' = Pair(i, JsonLoads(strip(file[i + 1])).v)
  /\ emitted' = Append(emitted, cur')
  /\ pc' = "validate"
  /\ UNCHANGED <<exists, file, count, exc, printed, rec, verdict>>

\* Lines 38-39: a line that parses is yielded with its number.
YieldRecord ==
  /\ pc = "iter"
  /\ i < Len(file)
  /\ strip(file[i + 1]) # ""
  /\ JsonLoads(strip(file[i + 1])).ok
  /\ i' = i + 1
  /\ cur' = Pair(i + 1, JsonLoads(strip(file[i + 1])).v)
  /\ emitted' = Append(emitted, cur')
  /\ pc' = "validate"
  /\ UNCHANGED <<exists, file, count, exc, printed, rec, verdict>>

\* Variant of JSONDecodeError: the error carries the number of the pair that
\* would have been yielded instead of the physical line number.
JSONDecodeError_pair_number ==
  /\ pc = "iter"
  /\ i < Len(file)
  /\ strip(file[i + 1]) # ""
  /\ ~JsonLoads(strip(file[i + 1])).ok
  /\ i' = i + 1
  /\ exc' = ValueError(R_PARSE, Len(emitted) + 1, "")
  /\ pc' = "raised"
  /\ UNCHANGED <<exists, file, count, cur, emitted, printed, rec, verdict>>

\* Lines 40-41: a line that does not parse ends the call with the parse error.
JSONDecodeError ==
  /\ pc = "iter"
  /\ i < Len(file)
  /\ strip(file[i + 1]) # ""
  /\ ~JsonLoads(strip(file[i + 1])).ok
  /\ i' = i + 1
  /\ exc' = ValueError(R_PARSE, i + 1, "")
  /\ pc' = "raised"
  /\ UNCHANGED <<exists, file, count, cur, emitted, printed, rec, verdict>>

\* Lines 73-75: the loop body on the pair yielded.
Validate ==
  /\ pc = "validate"
  /\ LET v == validate_messages_struct(cur.rec, cur.line_no)
     IN IF v.type = "none"
        THEN count' = count + 1 /\ pc' = "iter" /\ exc' = exc
        ELSE count' = count /\ pc' = "raised" /\ exc' = v
  /\ UNCHANGED <<exists, file, i, cur, emitted, printed, rec, verdict>>

\* Variant of Finish: no test of count == 0.
Finish_unchecked ==
  /\ pc = "iter"
  /\ i = Len(file)
  /\ pc' = "done"
  /\ printed' = [ok |-> TRUE, n |-> count]
  /\ UNCHANGED <<exists, file, i, count, cur, emitted, exc, rec, verdict>>

\* Lines 77-80: the end of the file.
Finish ==
  /\ pc = "iter"
  /\ i = Len(file)
  /\ IF count = 0
     THEN pc' = "raised" /\ exc' = ValueError(R_EMPTY, 0, "") /\ printed' = printed
     ELSE pc' = "done" /\ exc' = exc /\ printed' = [ok |-> TRUE, n |-> count]
  /\ UNCHANGED <<exists, file, i, count, cur, emitted, rec, verdict>>

Next ==
  \/ CheckExists
  \/ SkipBlank
  \/ YieldRecord
  \/ JSONDecodeError
  \/ Validate
  \/ Finish

Spec == Init /\ [][Next]_vars

-----------------------------------------------------------------------------
(* One call of _validate_messages_struct.                                  *)

InitRec ==
  /\ rec \in Records
  /\ verdict = NoExc
  /\ pc = "call"
  /\ exists = TRUE
  /\ file = <<>>
  /\ i = 0
  /\ count = 0
  /\ cur = NoPair
  /\ emitted = <<>>
  /\ exc = NoExc
  /\ printed = NotPrinted

CallValidate ==
  /\ pc = "call"
  /\ verdict' = validate_messages_struct(rec, 1)
  /\ pc' = "returned"
  /\ UNCHANGED <<exists, file, i, count, cur, emitted, exc, printed, rec>>

NextRec == CallValidate

SpecRec == InitRec /\ [][NextRec]_vars

-----------------------------------------------------------------------------
(* The four conditions of the chat-message contract, stated on a record.   *)

Cond1(r) == IsDict(r) /\ HasKey(r, "messages") /\ IsList(Get(r, "messages"))
MsgsOf(r) == Get(r, "messages").items
HasStrFields(m) ==
  /\ HasKey(m, "role") /\ HasKey(m, "content")
  /\ IsStr(Get(m, "role")) /\ IsStr(Get(m, "content"))
Cond2(r) == \A j \in 1..Len(MsgsOf(r)) : IsDict(MsgsOf(r)[j])
Cond3(r) == \A j \in 1..Len(MsgsOf(r)) : HasStrFields(MsgsOf(r)[j])
Cond4(r) ==
  \A role \in {"user", "assistant"} :
    \E j \in 1..Len(MsgsOf(r)) : Get(MsgsOf(r)[j], "role") = JStr(role)
Contract(r) == Cond1(r) /\ Cond2(r) /\ Cond3(r) /\ Cond4(r)

RecOf(l) == JObj(<<KV("messages", JArr(l))>>)

\* C2: _validate_messages_struct accepts a record if and only if the record
\* has a `messages` list, every element is an object, every element has string
\* `role` and `content`, and the roles cover user and assistant; a user-only
\* record and an empty list are rejected, a user+assistant record is accepted,
\* extra or repeated roles do not reject.
C2_AcceptIffContract ==
  pc = "returned" =>
    /\ (verdict.type = "none") <=> Contract(rec)
    /\ rec = RecOf(<<M_user>>) => verdict.type = "ValueError"
    /\ rec = RecOf(<<>>) => verdict.type = "ValueError"
    /\ rec = RecOf(<<M_user, M_assistant>>) => verdict = NoExc
    /\ rec \in {RecOf(<<M_system, M_user, M_assistant>>),
                RecOf(<<M_user, M_assistant, M_user>>)} => verdict = NoExc

C2_Witness ==
  /\ pc = "returned"
  /\ rec = RecOf(<<M_user, M_assistant, M_system>>)
  /\ verdict.type = "none"

\* C3: a top-level value that is not an object is rejected at check 1, with
\* the reason naming the missing or invalid `messages` list, and ends in no
\* other kind of failure.
C3_NonObjectRejectedAtCheck1 ==
  (pc = "returned" /\ ~IsDict(rec)) => verdict = ValueError(R_MESSAGES, 1, "")

\* The number of the check a rejection reason belongs to.
CheckOf(reason) ==
  CASE reason = R_MESSAGES -> 1
    [] reason = R_OBJECT -> 2
    [] reason \in {R_KEYS, R_STRINGS} -> 3
    [] reason = R_ROLE -> 4
    [] OTHER -> 0

\* The lowest-numbered of the four checks a record fails, 0 when none.
LowestFailing(r) ==
  IF ~Cond1(r) THEN 1
  ELSE IF ~Cond2(r) THEN 2
  ELSE IF ~Cond3(r) THEN 3
  ELSE IF ~Cond4(r) THEN 4
  ELSE 0

\* C4 as claimed: the rejection reason belongs to the lowest-numbered check
\* the record fails, so a non-object element anywhere in the list gives the
\* "each message must be an object" reason.
C4_LowestFailingCheck ==
  (pc = "returned" /\ verdict.type = "ValueError") =>
    CheckOf(verdict.reason) = LowestFailing(rec)

\* The check (2 or 3) that message m fails first, 0 when it passes both.
ElemFails(m) == IF ~IsDict(m) THEN 2 ELSE IF ~HasStrFields(m) THEN 3 ELSE 0

\* C4 amended: check 1 comes first; then the elements are taken in list order
\* and the reason belongs to the first check (2, then 3) that the first
\* failing element fails; a missing-role reason is given only when every
\* element passes checks 2 and 3, and names the first required role missing.
C4_FirstFailingElement ==
  (pc = "returned" /\ verdict.type = "ValueError") =>
    IF ~Cond1(rec) THEN verdict.reason = R_MESSAGES
    ELSE LET bad == {j \in 1..Len(MsgsOf(rec)) : ElemFails(MsgsOf(rec)[j]) # 0}
         IN IF bad # {}
            THEN LET first == CHOOSE j \in bad : \A h \in bad : j <= h
                 IN CheckOf(verdict.reason) = ElemFails(MsgsOf(rec)[first])
            ELSE /\ verdict.reason = R_ROLE
                 /\ ~Cond4(rec)
                 /\ verdict.role =
                      (IF \E j \in 1..Len(MsgsOf(rec)) :
                            Get(MsgsOf(rec)[j], "role") = JStr("user")
                       THEN "assistant" ELSE "user")

C4_Witness ==
  /\ pc = "returned"
  /\ rec = RecOf(<<M_noRole, JStr("x")>>)
  /\ verdict.reason = R_KEYS

-----------------------------------------------------------------------------
(* The pass, stated on the file.                                           *)

NonBlank(k) == file[k].body # ""
Malformed(k) == NonBlank(k) /\ file[k].body \notin {T_OK, T_USER, T_NULL, T_ARR}
ValueAt(k) == JsonLoads(strip(file[k])).v
VerdictAt(k) == validate_messages_struct(ValueAt(k), k)
NonBlankUpTo(n) == {k \in 1..n : NonBlank(k)}
N == Cardinality(NonBlankUpTo(Len(file)))
AllValidJson == \A k \in 1..Len(file) : ~Malformed(k)
Ended == pc \in {"done", "raised"}
StructReasons == {R_MESSAGES, R_OBJECT, R_KEYS, R_STRINGS, R_ROLE}

\* The validator has run on line k.
Ran(k) ==
  /\ k \in 1..i
  /\ NonBlank(k) /\ ~Malformed(k)
  /\ ~(pc = "validate" /\ k = i)

\* The validator has run on line k and did not accept it.
NotAccepted(k) == Ran(k) /\ VerdictAt(k).type # "none"

\* C1: a record the structural validator rejects does not end the pass: the
\* rejection is not what validate_or_raise raises, and every non-blank line
\* after the rejected one is still read and validated (on a file without a
\* malformed line, whose parse error is fatal, by the end of the pass).
C1_RejectionDoesNotAbort ==
  \A k \in 1..Len(file) :
    (NotAccepted(k) /\ VerdictAt(k).type = "ValueError") =>
      /\ ~(pc = "raised" /\ exc.reason \in StructReasons)
      /\ (Ended /\ AllValidJson) =>
           \A h \in (k + 1)..Len(file) : NonBlank(h) => Ran(h)

\* The lines the pass has counted: those the validator has run on, as
\* accepted when it raised nothing and as rejected when it raised.
AcceptedLines == {k \in 1..Len(file) : Ran(k) /\ VerdictAt(k).type = "none"}
RejectedLines == {k \in 1..Len(file) : Ran(k) /\ VerdictAt(k).type # "none"}

\* C5: on a file whose non-blank lines are all valid JSON the pass ends with
\* accepted + rejected equal to the number N of non-blank lines: every
\* non-blank line is counted exactly once, as accepted or as rejected, and no
\* blank line is counted.
C5_AcceptedPlusRejectedIsN ==
  (Ended /\ exists /\ AllValidJson) =>
    /\ count = Cardinality(AcceptedLines)
    /\ Cardinality(AcceptedLines) + Cardinality(RejectedLines) = N
    /\ AcceptedLines \cup RejectedLines = NonBlankUpTo(Len(file))

\* C6: a malformed non-blank line makes the reader fail with a parse error
\* that carries the physical 1-based number of that line (blank lines before
\* it counted, not the pairs yielded); the failure ends the pass: no later
\* line is read or validated and no success is reported.
C6_ParseErrorFatal ==
  /\ (pc = "raised" /\ exc.reason = R_PARSE) =>
       /\ exc.type = "ValueError"
       /\ exc.line \in 1..Len(file)
       /\ Malformed(exc.line)
       /\ \A k \in 1..(exc.line - 1) : ~Malformed(k)
       /\ i = exc.line
       /\ \A j \in 1..Len(emitted) : emitted[j].line_no < exc.line
       /\ count = Len(emitted)
       /\ ~printed.ok
  /\ (\E k \in 1..Len(file) : Malformed(k)) => (pc # "done" /\ ~printed.ok)
  /\ (pc = "iter" /\ i > 0 /\ Malformed(i)) => FALSE

C6_Witness ==
  /\ pc = "raised"
  /\ exc.reason = R_PARSE
  /\ exc.line = 2
  /\ Len(emitted) = 0
  /\ Len(file) > 2
  /\ NonBlank(3)

\* The pairs the reader yields for the non-blank lines among the first n.
RECURSIVE PairsUpTo(_)
PairsUpTo(n) ==
  IF n = 0 THEN <<>>
  ELSE IF NonBlank(n) THEN Append(PairsUpTo(n - 1), Pair(n, ValueAt(n)))
  ELSE PairsUpTo(n - 1)

\* The lines the reader has passed without failing.
ReadOk == IF pc = "raised" /\ exc.reason = R_PARSE THEN i - 1 ELSE i

\* C7: the reader yields exactly one (line number, value) pair per non-blank
\* line it reads, in file order; the line numbers are the physical 1-based
\* positions, never zero, strictly increasing; a blank line yields no pair,
\* raises no error and is not counted.
C7_OnePairPerNonBlankLine ==
  /\ emitted = PairsUpTo(ReadOk)
  /\ \A j \in 1..Len(emitted) :
       /\ emitted[j].line_no >= 1
       /\ NonBlank(emitted[j].line_no)
       /\ j > 1 => emitted[j - 1].line_no < emitted[j].line_no
  /\ exc.line > 0 => NonBlank(exc.line)
  /\ count <= Len(emitted)
  /\ pc = "done" => Len(emitted) = N

C7_Witness ==
  /\ pc = "done"
  /\ Len(emitted) = 2
  /\ emitted[1].line_no = 2
  /\ emitted[2].line_no = 3

\* C8: zero accepted records is fatal: on an existing file with no non-blank
\* line validate_or_raise raises "contains 0 valid records", and it never
\* prints the success line with a count of 0.
C8_EmptyIsFatal ==
  /\ (Ended /\ exists /\ N = 0) => (pc = "raised" /\ exc = ValueError(R_EMPTY, 0, ""))
  /\ printed.ok => printed.n >= 1
  /\ pc = "done" => (printed.ok /\ printed.n = count)

C8_Witness ==
  /\ pc = "raised"
  /\ exc.reason = R_EMPTY
  /\ Len(file) >= 2

\* The lines whose record the validator accepts.
Acceptable(k) == NonBlank(k) /\ ~Malformed(k) /\ VerdictAt(k).type = "none"
AcceptableUpTo(n) == {k \in 1..n : Acceptable(k)}

\* C9, for a cap of 1 record: the accepted count never exceeds the cap, and a
\* pass that completes on an input with at least that many acceptable
\* records ends with exactly that many accepted, reading no line after the
\* one that reached the cap.  validate_or_raise(path_str) has no parameter
\* for a cap, so the pass with the cap set is the pass it always makes.
C9_CapHonoured ==
  LET k == 1
      reached == {h \in 1..Len(file) : Cardinality(AcceptableUpTo(h)) >= k}
  IN /\ count <= k
     /\ (pc = "done" /\ Cardinality(AcceptableUpTo(Len(file))) >= k) =>
          (count = k /\ \A h \in reached : i <= h)

\* The lines that are malformed or whose record the validator does not accept.
Offending(k) == NonBlank(k) /\ (Malformed(k) \/ VerdictAt(k).type # "none")

\* C10: the error validate_or_raise raises belongs to the earliest offending
\* physical line L: it names line L, it is a parse error exactly when L is
\* malformed, no line after L has been read, and every non-blank line before
\* L has been parsed and accepted.
C10_EarliestOffendingLine ==
  (pc = "raised" /\ \E k \in 1..Len(file) : Offending(k)) =>
    LET L == CHOOSE k \in 1..Len(file) :
               Offending(k) /\ \A h \in 1..(k - 1) : ~Offending(h)
    IN /\ exc.line = L
       /\ (exc.reason = R_PARSE) <=> Malformed(L)
       /\ i = L
       /\ count = Cardinality(NonBlankUpTo(L - 1))

====
